---------------------------- MODULE Spec2Model ----------------------------
(***************************************************************************)
(* Model of the listing acquisition and reconciliation pipeline of app.py: *)
(* the cars table, the scraping_log table, the clock, and the three        *)
(* background jobs (scrape_and_store_cars with its priority enrichment,    *)
(* enrich_cars_with_images, cleanup_inactive_cars).                        *)
(*                                                                         *)
(* Each job commits its work in one database transaction, so a job's       *)
(* reads and writes between two commits are one step of the model.  The    *)
(* scheduled enrichment job reads its rows when it starts and writes them  *)
(* back when it commits, after visiting the detail pages: these are two    *)
(* steps, and other jobs may commit in between.                            *)
(*                                                                         *)
(* Time is counted in days.  The columns that no job reads (title, brand,  *)
(* model, year, mileage, location, url, description, created_at,           *)
(* updated_at) are left out of a row.                                      *)
(***************************************************************************)
EXTENDS Integers, Sequences, FiniteSets, TLC

\* ------------------------------------------------------------- bounds

\* Listing ids of the marketplace: 1..MaxId.
MaxId == 12
\* The clock runs from day 0 to day MaxNow.
MaxNow == 8
\* Rows the scraping_log table may hold: discovery runs that may start.
MaxRuns == 2
\* A discovery run may fail while reconciling record 1..MaxFailAt.
MaxFailAt == 2

\* ---------------------------------------------------------- constants

\* Python's None (an absent price, posted_at, completed_at).
None == -1
\* FAST_SCRAPE_MAX_CARS, the per-run maximum of assembled candidates.
FAST_SCRAPE_MAX_CARS == 40
\* The deactivation safeguard: len(scraped_cars) > 10.
DEACTIVATION_THRESHOLD == 10
\* timedelta(days=7) of the cleanup job.
RETENTION_DAYS == 7
\* details['images'][:10]
MAX_DETAIL_IMAGES == 10
\* priority_enrich_latest(listing_ids, max_items=10)
PRIORITY_MAX_ITEMS == 10
\* .limit(200) and the break at 20 of the enrichment job's selection.
ENRICH_CANDIDATE_LIMIT == 200
ENRICH_BATCH == 20

Ids == 1..MaxId

Min(a, b) == IF a <= b THEN a ELSE b
Max(a, b) == IF a >= b THEN a ELSE b
Prefix(s, n) == SubSeq(s, 1, Min(Len(s), n))
SeqRange(s) == {s[k] : k \in 1..Len(s)}

VARIABLES
    cars,                     \* the rows of table cars (a set of rows)
    next_id,                  \* the sequence behind cars.id
    scraping_log,             \* the rows of table scraping_log, by id
    now,                      \* datetime.utcnow(), in days
    pc,                       \* where each job stands
    log_entry,                \* per discovery job: its ScrapingLog row
    newly_added_listing_ids,  \* per discovery job: ids inserted by its run
    cars_needing_images,      \* the rows the enrichment job loaded
    last_run                  \* history: the input of the latest discovery run
                              \* and whether an exception left the job, or
                              \* the latest call of an extractor

vars == <<cars, next_id, scraping_log, now, pc, log_entry,
          newly_added_listing_ids, cars_needing_images, last_run>>


\* ------------------------------------------------ the rendered page

\* What the rendering backend shows: whether page.goto returns or raises
\* its timeout, and the anchors of the search-results page in page order
\* (all_car_links).  An anchor carries the listing id its href yields
\* (None when no pattern matches), whether the href is a search/category
\* path, whether assembling its card raises, and what the extractors find
\* in its card (price, posted_at, thumbnail; None when absent).
THUMBNAIL == 0

Card(lid, variant) ==
    [listing_id |-> lid, nondetail |-> FALSE, malformed |-> FALSE,
     price     |-> IF variant = "full" THEN 100 ELSE None,
     posted_at |-> IF variant = "full" THEN 1 ELSE None,
     image_url |-> IF variant = "full" THEN THUMBNAIL ELSE None]

\* The page that lists the n listings lo, lo+1, ... in this order.
RenderedPage(lo, n, variant) ==
    [goto |-> "ok",
     all_car_links |-> [k \in 1..n |-> Card(lo + k - 1, variant)]]

\* The pages a discovery run may be shown: none, one, exactly the
\* threshold, one more than the threshold, or all of the listings.
Pages ==
    {RenderedPage(1, 0, "full"), RenderedPage(1, 1, "full"),
     RenderedPage(1, 1, "bare"),
     RenderedPage(1, DEACTIVATION_THRESHOLD, "full"),
     RenderedPage(1, DEACTIVATION_THRESHOLD + 1, "full"),
     RenderedPage(1, MaxId, "full")}

\* The pages of the long runs: the listings with and without the last ones.
LifecyclePages ==
    {RenderedPage(1, DEACTIVATION_THRESHOLD + 1, "full"),
     RenderedPage(1, MaxId, "full")}

\* ------------------------------------------------- scrape_listings

\* The loop with the id of an anchor entered in seen_ids before the test
\* of the search/category path.
RECURSIVE car_listingsSeenBeforeFilter(_, _)
car_listingsSeenBeforeFilter(all_car_links, seen_ids) ==
    IF all_car_links = <<>> THEN <<>>
    ELSE LET link == Head(all_car_links)
             rest == Tail(all_car_links)
         IN  IF link.listing_id = None
             THEN car_listingsSeenBeforeFilter(rest, seen_ids)
             ELSE IF link.listing_id \in seen_ids
             THEN car_listingsSeenBeforeFilter(rest, seen_ids)
             ELSE IF link.nondetail
             THEN car_listingsSeenBeforeFilter(rest,
                      seen_ids \cup {link.listing_id})
             ELSE <<link>> \o car_listingsSeenBeforeFilter(rest,
                                  seen_ids \cup {link.listing_id})

\* The loop over all_car_links: keep the first anchor of every id whose
\* href is a detail page, in page order.
RECURSIVE car_listings(_, _)
car_listings(all_car_links, seen_ids) ==
    IF all_car_links = <<>> THEN <<>>
    ELSE LET link == Head(all_car_links)
             rest == Tail(all_car_links)
         IN  IF link.listing_id = None THEN car_listings(rest, seen_ids)
             ELSE IF link.listing_id \in seen_ids THEN car_listings(rest, seen_ids)
             ELSE IF link.nondetail THEN car_listings(rest, seen_ids)
             ELSE <<link>> \o car_listings(rest, seen_ids \cup {link.listing_id})

\* The record the assembler builds from one candidate.
car_data(link) ==
    [listing_id |-> link.listing_id,
     price      |-> link.price,
     posted_at  |-> link.posted_at,
     image_urls |-> IF link.image_url # None THEN <<link.image_url>> ELSE <<>>]

\* assemble without the per-candidate catch: the first candidate that
\* raises ends the loop.
RECURSIVE assembleUntilFailure(_)
assembleUntilFailure(listings) ==
    IF listings = <<>> THEN <<>>
    ELSE IF Head(listings).malformed THEN <<>>
    ELSE <<car_data(Head(listings))>> \o assembleUntilFailure(Tail(listings))

\* The loop over car_listings[:self.max_cars]: a candidate whose assembly
\* raises is skipped, the others are appended in order.
RECURSIVE assemble(_)
assemble(listings) ==
    IF listings = <<>> THEN <<>>
    ELSE IF Head(listings).malformed THEN assemble(Tail(listings))
    ELSE <<car_data(Head(listings))>> \o assemble(Tail(listings))

\* scrape_listings without the slice [:self.max_cars].
scrape_listingsUntruncated(page, max_cars) ==
    IF page.goto # "ok" THEN <<>>
    ELSE assemble(car_listings(page.all_car_links, {}))

\* An exception outside the per-candidate catch (the timeout of page.goto)
\* is caught at the end of scrape_listings, which returns the records
\* assembled so far: none.
scrape_listings(page, max_cars) ==
    IF page.goto # "ok" THEN <<>>
    ELSE assemble(Prefix(car_listings(page.all_car_links, {}), max_cars))

\* ------------------------------------------------ the cars table

\* NewCar with the default of is_active taken to be False.
NewCarInactive(data, id, t) ==
    [id |-> id, listing_id |-> data.listing_id, price |-> data.price,
     posted_at |-> data.posted_at, image_urls |-> data.image_urls,
     first_seen_at |-> t, last_seen_at |-> t, is_active |-> FALSE]

\* Car(**car_data) at its INSERT: the column defaults fill first_seen_at,
\* last_seen_at (datetime.utcnow) and is_active (True).
NewCar(data, id, t) ==
    [id |-> id, listing_id |-> data.listing_id, price |-> data.price,
     posted_at |-> data.posted_at, image_urls |-> data.image_urls,
     first_seen_at |-> t, last_seen_at |-> t, is_active |-> TRUE]

\* UpdateCar that also stamps first_seen_at.
UpdateCarResetFirstSeen(existing_car, data, t) ==
    [existing_car EXCEPT
        !.first_seen_at = t,
        !.last_seen_at = t,
        !.is_active = TRUE,
        !.price = data.price,
        !.posted_at = IF data.posted_at # None THEN data.posted_at ELSE @,
        !.image_urls = IF data.image_urls # <<>> THEN data.image_urls ELSE @]

\* UpdateCar that stamps first_seen_at in place of last_seen_at.
UpdateCarStampsFirstSeen(existing_car, data, t) ==
    [existing_car EXCEPT
        !.first_seen_at = t,
        !.is_active = TRUE,
        !.price = data.price,
        !.posted_at = IF data.posted_at # None THEN data.posted_at ELSE @,
        !.image_urls = IF data.image_urls # <<>> THEN data.image_urls ELSE @]

\* The update of an existing row by a re-observation.
UpdateCar(existing_car, data, t) ==
    [existing_car EXCEPT
        !.last_seen_at = t,
        !.is_active = TRUE,
        !.price = data.price,
        !.posted_at = IF data.posted_at # None THEN data.posted_at ELSE @,
        !.image_urls = IF data.image_urls # <<>> THEN data.image_urls ELSE @]

\* Car.query.filter_by(listing_id=...): the rows with this listing id.
ByListingId(rows, lid) == {c \in rows : c.listing_id = lid}

\* One pass of the loop "for car_data in scraped_cars" on the session
\* state st = [cars, next_id, cars_added, cars_updated, newly_added].
ReconcileOne(st, data, t) ==
    LET found == ByListingId(st.cars, data.listing_id) IN
    IF found # {}
    THEN LET existing_car == CHOOSE c \in found : TRUE IN
         [st EXCEPT !.cars = (@ \ {existing_car})
                                \cup {UpdateCar(existing_car, data, t)},
                    !.cars_updated = @ + 1]
    ELSE [st EXCEPT !.cars = @ \cup {NewCar(data, st.next_id, t)},
                    !.next_id = @ + 1,
                    !.cars_added = @ + 1,
                    !.newly_added = Append(@, data.listing_id)]

\* The loop over the first k records of scraped_cars.
RECURSIVE ReconcileLoop(_, _, _, _)
ReconcileLoop(st, scraped_cars, k, t) ==
    IF k = 0 THEN st
    ELSE ReconcileOne(ReconcileLoop(st, scraped_cars, k - 1, t),
                      scraped_cars[k], t)

\* The safeguard with >= in place of >.
DeactivationAllowedAtThreshold(scraped_cars) ==
    LET current_listing_ids == {scraped_cars[k].listing_id :
                                    k \in 1..Len(scraped_cars)}
    IN  current_listing_ids # {} /\ Len(scraped_cars) >= DEACTIVATION_THRESHOLD

\* The safeguard without the test of the batch size.
DeactivationAllowedUnguarded(scraped_cars) ==
    LET current_listing_ids == {scraped_cars[k].listing_id :
                                    k \in 1..Len(scraped_cars)}
    IN  current_listing_ids # {}

\* No safeguard: the deactivation is always run.
DeactivationAllowedAlways(scraped_cars) == TRUE

\* The safeguard of the deactivation step.
DeactivationAllowed(scraped_cars) ==
    LET current_listing_ids == {scraped_cars[k].listing_id :
                                    k \in 1..Len(scraped_cars)}
    IN  current_listing_ids # {} /\ Len(scraped_cars) > DEACTIVATION_THRESHOLD

\* The bulk UPDATE: is_active = False for the active rows not in the batch.
MarkInactive(rows, scraped_cars) ==
    LET current_listing_ids == {scraped_cars[k].listing_id :
                                    k \in 1..Len(scraped_cars)}
    IN  {IF c.listing_id \notin current_listing_ids /\ c.is_active
         THEN [c EXCEPT !.is_active = FALSE] ELSE c : c \in rows}

Deactivate(rows, scraped_cars) ==
    IF DeactivationAllowed(scraped_cars)
    THEN MarkInactive(rows, scraped_cars)
    ELSE rows


\* ------------------------------------------------ the detail pages

\* What the detail page of listing lid shows when it is visited in
\* rendering w: a gallery of 0 to 3 images and a posting date (None, 1, 2).
\* In rendering 0 every detail page shows a gallery of 2 images, but for
\* that of listing 1, which shows none.  In rendering 3 every detail page
\* shows one image.
DetailWorlds == {1, 2}

Gallery(n) == [k \in 1..n |-> k]

DetailPage(w, lid) ==
    [images    |-> IF w = 0 THEN (IF lid = 1 THEN <<>> ELSE Gallery(2))
                   ELSE IF w = 3 THEN Gallery(1)
                   ELSE Gallery((lid + w) % 4),
     posted_at |-> IF (lid + w) % 3 = 0 THEN None ELSE (lid + w) % 3]

scrape_car_details(detail_page) ==
    [images    |-> Prefix(detail_page.images, MAX_DETAIL_IMAGES),
     posted_at |-> detail_page.posted_at]

\* The loop body of enrich_cars_with_images on a loaded row.
EnrichCar(car, details) ==
    LET full_images == details.images
        posted_at   == details.posted_at
    IN  [car EXCEPT
            !.image_urls = IF full_images # <<>>
                              /\ Len(full_images) > Max(Len(car.image_urls), 1)
                           THEN full_images ELSE @,
            !.posted_at = IF posted_at # None /\ car.posted_at # posted_at
                          THEN posted_at ELSE @]

\* The loop body of priority_enrich_latest on a loaded row.
PriorityEnrichCar(car, details) ==
    LET images    == details.images
        posted_at == details.posted_at
    IN  [car EXCEPT
            !.image_urls = IF images # <<>> /\ Len(car.image_urls) <= 1
                           THEN images ELSE @,
            !.posted_at = IF posted_at # None /\ car.posted_at # posted_at
                          THEN posted_at ELSE @]

\* ORDER BY first_seen_at DESC; rows inserted in one run are ordered by
\* their insertion (the later insert has the later first_seen_at).
SeenLater(c, d) ==
    \/ c.first_seen_at > d.first_seen_at
    \/ c.first_seen_at = d.first_seen_at /\ c.id >= d.id

\* The only element of a set of one element.
Only(S) == CHOOSE x \in S : TRUE

\* The row with as many rows seen later (itself counted) as seen earlier.
MiddleRow(rows) ==
    CHOOSE c \in rows :
        Cardinality({d \in rows : SeenLater(d, c)})
            = (Cardinality(rows) + 1) \div 2

\* The rows in this order: the rows seen later than the middle one, the
\* middle one, the rows seen earlier.  The set of rows and its middle row
\* are bound as values, so that each is computed once.
RECURSIVE OrderByFirstSeenDesc(_)
OrderByFirstSeenDesc(rows) ==
    Only({IF rs = {} THEN <<>>
          ELSE Only({OrderByFirstSeenDesc(
                         {d \in rs \ {mid} : SeenLater(d, mid)})
                       \o <<mid>>
                       \o OrderByFirstSeenDesc(
                              {d \in rs \ {mid} : ~SeenLater(d, mid)})
                     : mid \in {MiddleRow(rs)}})
          : rs \in {rows}})

NeedsImages(car) == Len(car.image_urls) <= 1

\* The selection of enrich_cars_with_images.
SelectCarsNeedingImages(rows) ==
    LET candidate_cars ==
            Prefix(OrderByFirstSeenDesc({c \in rows : c.is_active}),
                   ENRICH_CANDIDATE_LIMIT)
    IN  Prefix(SelectSeq(candidate_cars, NeedsImages), ENRICH_BATCH)

\* WriteBack that writes every column of the loaded rows.
WriteBackWholeRow(rows, loaded, changed) ==
    {IF \E k \in 1..Len(loaded) : loaded[k].id = c.id
     THEN changed[CHOOSE k \in 1..Len(loaded) : loaded[k].id = c.id]
     ELSE c : c \in rows}

\* The flush of a session that changed image_urls and posted_at of the
\* loaded rows: an UPDATE by primary key of the changed columns.
WriteBack(rows, loaded, changed) ==
    {IF \E k \in 1..Len(loaded) : loaded[k].id = c.id
     THEN LET k == CHOOSE k \in 1..Len(loaded) : loaded[k].id = c.id IN
          [c EXCEPT
             !.image_urls = IF changed[k].image_urls # loaded[k].image_urls
                            THEN changed[k].image_urls ELSE @,
             !.posted_at = IF changed[k].posted_at # loaded[k].posted_at
                           THEN changed[k].posted_at ELSE @]
     ELSE c : c \in rows}

\* Expired without the test of is_active.
ExpiredIgnoringActive(c, t) == c.last_seen_at < t - RETENTION_DAYS

\* Expired with <= in place of <.
ExpiredAtBoundary(c, t) == ~c.is_active /\ c.last_seen_at <= t - RETENTION_DAYS

\* The rows the cleanup job's DELETE matches.
Expired(c, t) == ~c.is_active /\ c.last_seen_at < t - RETENTION_DAYS

\* ------------------------------------------------ the jobs

Scrapers == {"fast_scrape_job", "trigger_scrape"}
Enricher == "image_enrichment_job"
Jobs == Scrapers \cup {Enricher}

NewLog ==
    [cars_found |-> 0, cars_added |-> 0, cars_updated |-> 0,
     status |-> "NULL", error_message |-> "NULL",
     scrape_completed_at |-> None]

Init ==
    /\ cars = {}
    /\ next_id = 1
    /\ scraping_log = <<>>
    /\ now = 0
    /\ pc = [j \in Jobs |-> "idle"]
    /\ log_entry = [s \in Scrapers |-> 0]
    /\ newly_added_listing_ids = [s \in Scrapers |-> <<>>]
    /\ cars_needing_images = <<>>
    /\ last_run = <<>>

\* The days on which the clock is read: the first two, and those from
\* the retention window on.
Days == {0, 1} \cup (RETENTION_DAYS..MaxNow)

\* The clock advances to the next of these days.
Tick ==
    /\ \E d \in Days : d > now
    /\ now' = CHOOSE d \in Days : d > now /\ \A e \in Days : e > now => d <= e
    /\ UNCHANGED <<cars, next_id, scraping_log, pc, log_entry,
                   newly_added_listing_ids, cars_needing_images, last_run>>

\* scrape_and_store_cars up to its first commit: the ScrapingLog row.
ScrapeBegin(s, max_runs) ==
    /\ pc[s] = "idle"
    /\ Len(scraping_log) < max_runs
    /\ scraping_log' = Append(scraping_log, NewLog)
    /\ log_entry' = [log_entry EXCEPT ![s] = Len(scraping_log) + 1]
    /\ pc' = [pc EXCEPT ![s] = "scrape"]
    /\ UNCHANGED <<cars, next_id, now, newly_added_listing_ids,
                   cars_needing_images, last_run>>

\* The session before the reconciliation loop.
Session ==
    [cars |-> cars, next_id |-> next_id, cars_added |-> 0,
     cars_updated |-> 0, newly_added |-> <<>>]

\* The exceptions a run can meet at the lookup of its k-th record: one
\* that application code raises, the session usable as it stands, and one
\* that the database raises for a statement of the session (the flush
\* before the lookup, or the lookup), which ends the transaction.
Faults(max_fail_at) ==
    {[at |-> 0, by |-> "none"]} \cup
    {[at |-> k, by |-> b] : k \in 1..max_fail_at,
                            b \in {"application", "database"}}

\* What the commit of the except clause persists: the session as the
\* failure left it (no rollback precedes the commit).
ExceptCommit(st) == st

\* scrape_and_store_cars from the scrape to the commit of its statistics,
\* on the rendered page `page`, the scraper built with max_cars.  fault.at = k > 0: the lookup of the k-th
\* record raises.  After an exception of the application the except
\* clause fills the log row in and commits it with the session as it
\* stands.  After an exception of the database the transaction is no
\* longer usable and no rollback is issued, so the commit of the except
\* clause raises in turn: nothing of the run is persisted, the log row
\* stays as the first commit wrote it, and the exception leaves the job.
ReconcileMax(s, page, fault, max_cars) ==
    LET scraped_cars == scrape_listings(page, max_cars)
        fail_at == fault.at
        done == IF fail_at = 0 THEN Len(scraped_cars) ELSE fail_at - 1
        st   == ReconcileLoop(Session, scraped_cars, done, now)
    IN  /\ pc[s] = "scrape"
        /\ fail_at <= Len(scraped_cars)
        /\ CASE fault.by = "none" ->
                /\ cars' = Deactivate(st.cars, scraped_cars)
                /\ next_id' = st.next_id
                /\ scraping_log' = [scraping_log EXCEPT ![log_entry[s]] =
                      [@ EXCEPT !.cars_found = Len(scraped_cars),
                                !.cars_added = st.cars_added,
                                !.cars_updated = st.cars_updated,
                                !.status = "success",
                                !.scrape_completed_at = now]]
                /\ newly_added_listing_ids' =
                      [newly_added_listing_ids EXCEPT ![s] = st.newly_added]
                /\ pc' = [pc EXCEPT ![s] =
                      IF st.newly_added # <<>> THEN "priority" ELSE "idle"]
             [] fault.by = "application" ->
                /\ cars' = ExceptCommit(st).cars
                /\ next_id' = ExceptCommit(st).next_id
                /\ scraping_log' = [scraping_log EXCEPT ![log_entry[s]] =
                      [@ EXCEPT !.cars_found = Len(scraped_cars),
                                !.status = "failed",
                                !.error_message = "error",
                                !.scrape_completed_at = now]]
                /\ newly_added_listing_ids' =
                      [newly_added_listing_ids EXCEPT ![s] = <<>>]
                /\ pc' = [pc EXCEPT ![s] = "idle"]
             [] fault.by = "database" ->
                /\ newly_added_listing_ids' =
                      [newly_added_listing_ids EXCEPT ![s] = <<>>]
                /\ pc' = [pc EXCEPT ![s] = "idle"]
                /\ UNCHANGED <<cars, next_id, scraping_log>>
        /\ last_run' = <<[page |-> page, fail_at |-> fail_at,
                          raised_by |-> fault.by,
                          escaped |-> (fault.by = "database")]>>
        /\ UNCHANGED <<now, log_entry, cars_needing_images>>

\* The run of a scraper built with max_cars=FAST_SCRAPE_MAX_CARS.
Reconcile(s, page, fault) ==
    ReconcileMax(s, page, fault, FAST_SCRAPE_MAX_CARS)

scrape_and_store_cars(s, pages, max_fail_at) ==
    \E page \in pages, fault \in Faults(max_fail_at) : Reconcile(s, page, fault)

\* priority_enrich_latest on the ids the run inserted, the detail pages
\* rendered as in w.
PriorityEnrich(s, w) ==
    LET limited_ids == SeqRange(Prefix(newly_added_listing_ids[s],
                                       PRIORITY_MAX_ITEMS))
    IN  /\ pc[s] = "priority"
        /\ cars' = {IF c.listing_id \in limited_ids
                    THEN PriorityEnrichCar(c,
                            scrape_car_details(DetailPage(w, c.listing_id)))
                    ELSE c : c \in cars}
        /\ pc' = [pc EXCEPT ![s] = "idle"]
        /\ newly_added_listing_ids' =
              [newly_added_listing_ids EXCEPT ![s] = <<>>]
        /\ UNCHANGED <<next_id, scraping_log, now, log_entry,
                       cars_needing_images, last_run>>

priority_enrich_latest(s, worlds) == \E w \in worlds : PriorityEnrich(s, w)

\* enrich_cars_with_images up to the launch of the browser: the selection
\* loads the rows; with nothing selected the job returns.
EnrichSelect ==
    /\ pc[Enricher] = "idle"
    /\ LET selected == SelectCarsNeedingImages(cars)
       IN  selected # <<>> /\ cars_needing_images' = selected
    /\ pc' = [pc EXCEPT ![Enricher] = "visit"]
    /\ UNCHANGED <<cars, next_id, scraping_log, now, log_entry,
                   newly_added_listing_ids, last_run>>

\* enrich_cars_with_images from the visits to its commit.  Every loaded
\* row is changed (updated_at); the UPDATE of a row that was deleted in
\* the meantime raises, and the except clause rolls the session back.
EnrichVisit(w) ==
    LET loaded  == cars_needing_images
        changed == [k \in 1..Len(loaded) |->
                      EnrichCar(loaded[k],
                          scrape_car_details(DetailPage(w, loaded[k].listing_id)))]
        stale   == \E k \in 1..Len(loaded) :
                      \A c \in cars : c.id # loaded[k].id
    IN  /\ pc[Enricher] = "visit"
        /\ cars' = IF stale THEN cars ELSE WriteBack(cars, loaded, changed)
        /\ cars_needing_images' = <<>>
        /\ pc' = [pc EXCEPT ![Enricher] = "idle"]
        /\ UNCHANGED <<next_id, scraping_log, now, log_entry,
                       newly_added_listing_ids, last_run>>

enrich_cars_with_images(worlds) ==
    EnrichSelect \/ \E w \in worlds : EnrichVisit(w)

\* cleanup_inactive_cars: the DELETE and its commit.
cleanup_inactive_cars ==
    /\ cars' = {c \in cars : ~Expired(c, now)}
    /\ UNCHANGED <<next_id, scraping_log, now, pc, log_entry,
                   newly_added_listing_ids, cars_needing_images, last_run>>

\* The scheduler's jobs, with at most max_runs discovery runs on the
\* pages `pages`, failing at a record up to max_fail_at.
Schedule(max_runs, pages, max_fail_at, worlds) ==
    \/ Tick
    \/ ScrapeBegin("fast_scrape_job", max_runs)
    \/ scrape_and_store_cars("fast_scrape_job", pages, max_fail_at)
    \/ priority_enrich_latest("fast_scrape_job", worlds)
    \/ enrich_cars_with_images(worlds)
    \/ cleanup_inactive_cars

Next == Schedule(MaxRuns, Pages, MaxFailAt, DetailWorlds)

Spec == Init /\ [][Next]_vars

\* Longer histories of runs that do not fail, on the pages LifecyclePages.
NextLifecycle == Schedule(MaxRuns + 1, LifecyclePages, 0, {1})

SpecLifecycle == Init /\ [][NextLifecycle]_vars

\* ------------------------------------------------ properties

\* A step in which discovery job s ends its reconciliation (its commit of
\* the statistics, or the commit of its except clause).
DiscoveryStep(s) == pc[s] = "scrape" /\ pc'[s] # "scrape"

\* The batch a run assembled, its ids, and the records it reconciled.
BatchOf(run) == scrape_listings(run.page, FAST_SCRAPE_MAX_CARS)
BatchIds(run) == {BatchOf(run)[k].listing_id : k \in 1..Len(BatchOf(run))}
Reconciled(run) ==
    IF run.fail_at = 0 THEN 1..Len(BatchOf(run)) ELSE 1..(run.fail_at - 1)

ActiveRows == {c \in cars : c.is_active}

\* C1: in a discovery run that completes with a batch of more than 10
\* records, every row that was active before the run and whose listing id
\* is not in the batch is inactive after it; with a batch of exactly 10
\* records the rows outside the batch are left as they were.
C1_DeactivationAboveThreshold ==
    [][\A s \in Scrapers :
          DiscoveryStep(s) /\ last_run'[1].fail_at = 0 =>
             LET run == last_run'[1] IN
             /\ Len(BatchOf(run)) > 10 =>
                  \A c \in cars :
                     c.is_active /\ c.listing_id \notin BatchIds(run) =>
                        \E d \in cars' : d.id = c.id /\ ~d.is_active
             /\ Len(BatchOf(run)) = 10 =>
                  \A c \in cars :
                     c.listing_id \notin BatchIds(run) => c \in cars']_vars

\* C1 witness: a run with a batch of more than 10 records has completed and
\* has left a row inactive.
C1_Witness ==
    /\ last_run # <<>>
    /\ last_run[1].fail_at = 0
    /\ Len(BatchOf(last_run[1])) > 10
    /\ \E c \in cars : ~c.is_active /\ c.listing_id \notin BatchIds(last_run[1])

\* C2: in a discovery run whose batch has at most 10 records (an empty
\* batch included), no row that was active before the run is inactive or
\* gone after it.
C2_DeactivationGuard ==
    [][\A s \in Scrapers :
          DiscoveryStep(s) /\ Len(BatchOf(last_run'[1])) <= 10 =>
             \A c \in cars :
                c.is_active => \E d \in cars' : d.id = c.id /\ d.is_active]_vars

\* C2 witness: after a completed run with a batch below the threshold, more
\* rows than the threshold are active, most of them outside the batch.
C2_Witness ==
    /\ last_run # <<>>
    /\ last_run[1].fail_at = 0
    /\ Len(BatchOf(last_run[1])) < 10
    /\ Cardinality(ActiveRows) > 10
    /\ \A s \in Scrapers : pc[s] = "idle"

\* C3: a discovery run that completes on the page of the run before it,
\* which completed too, with a nonempty batch, records added = 0 and
\* updated = the batch size and leaves first_seen_at of every listing of
\* the batch as it was.
C3_Idempotence ==
    [][\A s \in Scrapers :
          (/\ DiscoveryStep(s)
           /\ last_run # <<>>
           /\ last_run[1].fail_at = 0
           /\ last_run'[1].page = last_run[1].page
           /\ last_run'[1].fail_at = 0
           /\ BatchOf(last_run[1]) # <<>>) =>
             LET run == last_run[1]
                 row == scraping_log'[log_entry[s]]
             IN  /\ row.cars_added = 0
                 /\ row.cars_updated = Len(BatchOf(run))
                 /\ \A lid \in BatchIds(run) :
                       \E c \in cars, d \in cars' :
                          /\ c.listing_id = lid /\ d.listing_id = lid
                          /\ d.first_seen_at = c.first_seen_at]_vars

\* C3 witness: two runs in sequence have completed on the page of 11
\* listings, the second on a later day than the first.
C3_Witness ==
    /\ Len(scraping_log) = 2
    /\ \A k \in 1..2 : /\ scraping_log[k].status = "success"
                       /\ scraping_log[k].cars_found = 11
    /\ scraping_log[2].cars_added = 0
    /\ scraping_log[2].cars_updated = 11
    /\ scraping_log[2].scrape_completed_at > scraping_log[1].scrape_completed_at

\* C4: when a run that completes re-observes a stored listing and the
\* record's price, posted_at or image_urls is absent or empty, the stored
\* value of that field is left as it was.
C4_AbsentNeverOverwrites ==
    [][\A s \in Scrapers :
          DiscoveryStep(s) /\ last_run'[1].fail_at = 0 =>
             LET scraped_cars == BatchOf(last_run'[1]) IN
             \A k \in 1..Len(scraped_cars) :
                \A c \in ByListingId(cars, scraped_cars[k].listing_id) :
                   \E d \in cars' :
                      /\ d.id = c.id
                      /\ scraped_cars[k].price = None => d.price = c.price
                      /\ scraped_cars[k].posted_at = None =>
                            d.posted_at = c.posted_at
                      /\ scraped_cars[k].image_urls = <<>> =>
                            d.image_urls = c.image_urls]_vars

\* The rows of cars' whose primary key no row of cars has.
Inserted == {d \in cars' : \A c \in cars : c.id # d.id}

C6_LastSeenNotBeforeFirstSeen ==
    \A c \in cars : c.last_seen_at >= c.first_seen_at

\* C6 witness: a row re-observed on a later day than its insertion, next
\* to a row that was not.
C6_Witness ==
    /\ \E c \in cars : c.last_seen_at > c.first_seen_at
    /\ \E c \in cars : c.last_seen_at = c.first_seen_at

\* C7: a row goes from inactive to active only in the step of a discovery
\* run whose batch has its listing id; no step of the enrichment job, of
\* priority enrichment or of the sweeper does it.
C7_ReactivationOnlyByDiscovery ==
    [][\A c \in cars, d \in cars' :
          c.id = d.id /\ ~c.is_active /\ d.is_active =>
             \E s \in Scrapers :
                /\ DiscoveryStep(s)
                /\ c.listing_id \in BatchIds(last_run'[1])]_vars

\* C7 witness: listing MaxId was inserted by a first run, deactivated by
\* a second and is active again after a third.
C7_Witness ==
    /\ Len(scraping_log) = 3
    /\ \A k \in 1..3 : scraping_log[k].status = "success"
    /\ scraping_log[1].cars_added = MaxId
    /\ scraping_log[2].cars_found = MaxId - 1
    /\ scraping_log[3].cars_updated = MaxId
    /\ \E c \in cars : c.listing_id = MaxId /\ c.is_active

\* A step that changes nothing but the store: one of the sweeper.
SweeperStep ==
    /\ cars' # cars
    /\ UNCHANGED <<next_id, scraping_log, now, pc, log_entry,
                   newly_added_listing_ids, cars_needing_images, last_run>>

\* The rows of cars whose primary key no row of cars' has.
Deleted == {c \in cars : \A d \in cars' : d.id # c.id}

\* C8: a row leaves the store only in a step of the sweeper, and only
\* if it is inactive in the state the step starts from.
C8_DeletionOnlyBySweeper ==
    [][\A c \in Deleted : SweeperStep /\ ~c.is_active]_vars

\* C8 witness: a row is gone from a store that holds active rows, while
\* an enrichment run that loaded rows is under way.
C8_Witness ==
    /\ next_id - 1 > Cardinality(cars)
    /\ ActiveRows # {}
    /\ pc[Enricher] = "visit"
    /\ \A s \in Scrapers : pc[s] = "idle"

\* The rows a sweep at time t leaves: the active ones and those seen at
\* most 7 days before t.
Retained(rows, t) == {c \in rows : c.is_active \/ t - c.last_seen_at <= 7}

\* C9: a step of the sweeper deletes exactly the inactive rows last seen
\* more than 7 days before, and a second sweep at the same time would
\* delete nothing.
C9_RetentionSweep ==
    [][SweeperStep =>
          /\ cars' = Retained(cars, now)
          /\ Retained(cars', now') = cars']_vars

\* C9 witness: 8 days after the first run, the row that run inserted and
\* the next run deactivated has been deleted, and no inactive row is left.
C9_Witness ==
    /\ now = RETENTION_DAYS + 1
    /\ Cardinality(cars) = MaxId - 1
    /\ next_id = MaxId + 1
    /\ \A c \in cars : c.is_active

\* C10: a run in which the lookup of the k-th record raises ends with its
\* log row at status failed, with an error message and a completion time,
\* and with the inserts and updates of the records before the k-th in the
\* store.
C10_FailedRunPersistsProgress ==
    [][\A s \in Scrapers :
          DiscoveryStep(s) /\ last_run'[1].fail_at > 0 =>
             LET scraped_cars == BatchOf(last_run'[1])
                 row == scraping_log'[log_entry[s]]
             IN  /\ row.status = "failed"
                 /\ row.error_message # "NULL"
                 /\ row.scrape_completed_at # None
                 /\ \A k \in Reconciled(last_run'[1]) :
                       \E d \in cars' :
                          /\ d.listing_id = scraped_cars[k].listing_id
                          /\ d.last_seen_at = now
                          /\ d.is_active
                          /\ d.price = scraped_cars[k].price]_vars

\* C11: no exception leaves a job: every discovery run ends inside
\* scrape_and_store_cars, whatever the rendering backend or the database
\* does.
C11_CatchAllBarrier ==
    last_run # <<>> => ~last_run[1].escaped

\* ------------------------------------------------ assembly

\* The page with the cards of the listings in bad raising in their assembly.
WithMalformed(page, bad) ==
    [page EXCEPT !.all_car_links =
        [k \in DOMAIN page.all_car_links |->
            [page.all_car_links[k] EXCEPT
                !.malformed = page.all_car_links[k].listing_id \in bad]]]

\* A page whose anchors yield no candidate: a href without a listing id and
\* hrefs of search and category pages.
NoCandidates ==
    [goto |-> "ok",
     all_car_links |->
        <<[Card(1, "full") EXCEPT !.listing_id = None],
          [Card(1, "full") EXCEPT !.nondetail = TRUE],
          [Card(2, "full") EXCEPT !.nondetail = TRUE]>>]

\* page.goto raises its timeout: nothing of the page is read.
NavigationTimeout == [goto |-> "timeout", all_car_links |-> <<>>]

\* The pages of the runs that exercise discovery and assembly: 3 and
\* MaxId candidates, none to all of them failing in assembly, no candidate,
\* and the navigation timeout.
AssemblyPages ==
    {RenderedPage(1, 0, "full"), NoCandidates, NavigationTimeout,
     RenderedPage(1, 3, "full"),
     WithMalformed(RenderedPage(1, 3, "full"), {2}),
     WithMalformed(RenderedPage(1, 3, "full"), {1, 3}),
     WithMalformed(RenderedPage(1, 3, "full"), {1, 2, 3}),
     RenderedPage(1, MaxId, "full"),
     WithMalformed(RenderedPage(1, MaxId, "full"), {1}),
     WithMalformed(RenderedPage(1, MaxId, "full"), {1, MaxId})}

NextAssembly == Schedule(MaxRuns, AssemblyPages, 0, {1})

SpecAssembly == Init /\ [][NextAssembly]_vars

\* The candidates discovered on a page, cut to the per-run maximum.
Candidates(page) ==
    Prefix(car_listings(page.all_car_links, {}), FAST_SCRAPE_MAX_CARS)

Parseable(link) == ~link.malformed

\* C12: in a run on a page with n candidates (n within the per-run
\* maximum) of which f raise in assembly, the batch is the n - f others in
\* page order, each of them is stored as seen at the time of the run, and
\* the log row is at status success with cars_found = n - f.
C12_CandidateFailureSkipped ==
    [][\A s \in Scrapers :
          DiscoveryStep(s) /\ last_run'[1].page.goto = "ok" =>
             LET page  == last_run'[1].page
                 good  == SelectSeq(Candidates(page), Parseable)
                 n     == Len(Candidates(page))
                 f     == Cardinality({k \in 1..n :
                                          ~Parseable(Candidates(page)[k])})
                 row   == scraping_log'[log_entry[s]]
                 fresh == {k \in 1..Len(good) :
                             ByListingId(cars, good[k].listing_id) = {}}
             IN  /\ Len(BatchOf(last_run'[1])) = n - f
                 /\ \A k \in 1..Len(good) :
                       /\ BatchOf(last_run'[1])[k].listing_id = good[k].listing_id
                       /\ \E d \in cars' : /\ d.listing_id = good[k].listing_id
                                           /\ d.last_seen_at = now
                                           /\ d.is_active
                 /\ row.status = "success"
                 /\ row.cars_found = n - f
                 /\ row.cars_added = Cardinality(fresh)
                 /\ Cardinality(cars') = Cardinality(cars) + Cardinality(fresh)]_vars

\* C12 witness: a run on the page of 3 candidates of which the second
\* raises has stored exactly 2 new rows and is at status success.
C12_Witness ==
    /\ last_run # <<>>
    /\ last_run[1].page = WithMalformed(RenderedPage(1, 3, "full"), {2})
    /\ Len(scraping_log) = 1
    /\ scraping_log[1].status = "success"
    /\ scraping_log[1].cars_found = 2
    /\ scraping_log[1].cars_added = 2
    /\ {c.listing_id : c \in cars} = {1, 3}

\* C13: a run on a page that is rendered and has no candidate ends at
\* status success with cars_found = cars_added = cars_updated = 0 and
\* leaves every row as it was.
C13_ZeroCandidates ==
    [][\A s \in Scrapers :
          (/\ DiscoveryStep(s)
           /\ last_run'[1].page.goto = "ok"
           /\ Candidates(last_run'[1].page) = <<>>) =>
             LET row == scraping_log'[log_entry[s]]
             IN  /\ row.status = "success"
                 /\ row.cars_found = 0
                 /\ row.cars_added = 0
                 /\ row.cars_updated = 0
                 /\ cars' = cars]_vars

\* C13 witness: a run on a page of anchors that are no candidates has
\* completed over a store of MaxId active rows.
C13_Witness ==
    /\ last_run # <<>>
    /\ last_run[1].page = NoCandidates
    /\ Len(scraping_log) = 2
    /\ scraping_log[2].status = "success"
    /\ scraping_log[2].cars_found = 0
    /\ Cardinality(ActiveRows) = MaxId

\* C14: a run in which page.goto raises its timeout ends with its log row
\* at status failed.
C14_TimeoutFailsRun ==
    [][\A s \in Scrapers :
          DiscoveryStep(s) /\ last_run'[1].page.goto = "timeout" =>
             scraping_log'[log_entry[s]].status = "failed"]_vars

\* The listing ids of all candidates discovered on a page.
DiscoveredIds(page) ==
    LET found == car_listings(page.all_car_links, {})
    IN  {found[k].listing_id : k \in 1..Len(found)}

\* C15: a run leaves active every active row whose listing id is among the
\* candidates discovered on its page, also when that candidate was skipped
\* in assembly or was cut off by the per-run maximum.
C15_PresentStaysActive ==
    [][\A s \in Scrapers :
          DiscoveryStep(s) /\ last_run'[1].page.goto = "ok" =>
             \A c \in cars :
                c.is_active /\ c.listing_id \in DiscoveredIds(last_run'[1].page)
                   => \E d \in cars' : d.id = c.id /\ d.is_active]_vars

\* A step in which an enrichment pass commits: the scheduled job after
\* its visits, or the priority enrichment of a discovery job.
EnrichmentStep ==
    \/ pc[Enricher] = "visit" /\ pc'[Enricher] = "idle"
    \/ \E s \in Scrapers : pc[s] = "priority" /\ pc'[s] = "idle"

\* C16: an enrichment pass, scheduled or priority, changes the image_urls
\* of a row only to a list that is strictly longer than the one the row
\* held.
C16_ImagesOnlyStrictlyLarger ==
    [][EnrichmentStep =>
          \A c \in cars, d \in cars' :
             c.id = d.id /\ d.image_urls # c.image_urls =>
                Len(d.image_urls) > Len(c.image_urls)]_vars

\* C18: once a row is stored, its image_urls and posted_at change only in
\* a step of an enrichment pass (not when a discovery run re-observes the
\* listing), and its is_active and first_seen_at change only in a step of
\* a discovery run.
C18_WriteOwnership ==
    [][\A c \in cars, d \in cars' :
          c.id = d.id =>
             /\ (d.image_urls # c.image_urls \/ d.posted_at # c.posted_at)
                   => EnrichmentStep
             /\ (d.is_active # c.is_active \/ d.first_seen_at # c.first_seen_at)
                   => \E s \in Scrapers : DiscoveryStep(s)]_vars

\* ------------------------------------------------ selection

\* The runs of DEACTIVATION_THRESHOLD new listings each that fill the
\* store with ENRICH_CANDIDATE_LIMIT rows; no such run deactivates.
SelectRuns == ENRICH_CANDIDATE_LIMIT \div DEACTIVATION_THRESHOLD

\* The page of the k-th of these runs.
SelectPage(k) ==
    RenderedPage((k - 1) * DEACTIVATION_THRESHOLD + 1,
                 DEACTIVATION_THRESHOLD, "full")

\* The row of listing lid after the run that inserted it at time 0 and the
\* priority enrichment of that run in rendering 0.
StoredRow(lid) ==
    PriorityEnrichCar(NewCar(car_data(Card(lid, "full")), lid, 0),
                      scrape_car_details(DetailPage(0, lid)))

\* The state after SelectRuns runs at time 0, the k-th on SelectPage(k),
\* each followed by its priority enrichment.
InitSelect ==
    /\ cars = {StoredRow(lid) : lid \in 1..ENRICH_CANDIDATE_LIMIT}
    /\ next_id = ENRICH_CANDIDATE_LIMIT + 1
    /\ scraping_log =
          [k \in 1..SelectRuns |->
              [NewLog EXCEPT !.cars_found = DEACTIVATION_THRESHOLD,
                             !.cars_added = DEACTIVATION_THRESHOLD,
                             !.status = "success",
                             !.scrape_completed_at = 0]]
    /\ now = 0
    /\ pc = [j \in Jobs |-> "idle"]
    /\ log_entry = [s \in Scrapers |->
                       IF s = "fast_scrape_job" THEN SelectRuns ELSE 0]
    /\ newly_added_listing_ids = [s \in Scrapers |-> <<>>]
    /\ cars_needing_images = <<>>
    /\ last_run = <<[page |-> SelectPage(SelectRuns), fail_at |-> 0,
                     raised_by |-> "none", escaped |-> FALSE]>>

\* The pages of the next new listings, with and without what the cards show.
SelectPages ==
    {SelectPage(SelectRuns + 1),
     RenderedPage(ENRICH_CANDIDATE_LIMIT + 1, DEACTIVATION_THRESHOLD, "bare")}

\* One more run, on a page of the next new listings, with the other jobs.
NextSelect == Schedule(SelectRuns + 1, SelectPages, 0, {0})

SpecSelect == InitSelect /\ [][NextSelect]_vars

\* A step in which the scheduled enrichment job selects the rows to visit.
SelectionStep == pc[Enricher] = "idle" /\ pc'[Enricher] = "visit"

\* C17: the rows the scheduled enrichment job selects for its visits are
\* the first 20 (all, if fewer) of the active rows with at most one
\* image, by first_seen_at descending.
C17_EnrichmentSelection ==
    [][SelectionStep =>
          cars_needing_images' =
             Prefix(OrderByFirstSeenDesc(
                       {c \in cars : c.is_active /\ Len(c.image_urls) <= 1}),
                    20)]_vars

\* ------------------------------------------------ overlapping runs

\* The flush of the rows a session loaded and changed: an UPDATE by
\* primary key of the columns whose value the session changed.
FlushUpdates(rows, loaded, changed) ==
    {IF \E x \in loaded, y \in changed : x.id = c.id /\ y.id = c.id
     THEN LET l == CHOOSE x \in loaded : x.id = c.id
              m == CHOOSE y \in changed : y.id = c.id
          IN  [c EXCEPT
                 !.last_seen_at = IF m.last_seen_at # l.last_seen_at
                                  THEN m.last_seen_at ELSE @,
                 !.is_active = IF m.is_active # l.is_active
                               THEN m.is_active ELSE @,
                 !.price = IF m.price # l.price THEN m.price ELSE @,
                 !.posted_at = IF m.posted_at # l.posted_at
                               THEN m.posted_at ELSE @,
                 !.image_urls = IF m.image_urls # l.image_urls
                                THEN m.image_urls ELSE @]
     ELSE c : c \in rows}

\* A table without the constraint: no INSERT is refused.
UniqueViolationUnchecked(rows, new_rows) == FALSE

\* listing_id is unique=True: the INSERT of a row whose listing_id a stored
\* row has is refused by the database.
UniqueViolation(rows, new_rows) ==
    \E c \in new_rows : ByListingId(rows, c.listing_id) # {}

\* The log row of a run that completed.
LogSuccess(row, scraped_cars, st) ==
    [row EXCEPT !.cars_found = Len(scraped_cars),
                !.cars_added = st.cars_added,
                !.cars_updated = st.cars_updated,
                !.status = "success",
                !.scrape_completed_at = now]

\* Two executions of scrape_and_store_cars that overlap: both have made
\* their lookups on the committed store when s commits, and r commits
\* after it.  The rows r adds are inserted at its flush; if one of them has
\* the listing_id of a row that s inserted, the database refuses it, the
\* transaction of r is rolled back and the commit of its except clause
\* raises.  Otherwise r's updates, inserts and deactivation are applied to
\* the store as s left it.
Overlap(s, r, page_s, page_r) ==
    LET cars_s == scrape_listings(page_s, FAST_SCRAPE_MAX_CARS)
        cars_r == scrape_listings(page_r, FAST_SCRAPE_MAX_CARS)
        st_s   == ReconcileLoop(Session, cars_s, Len(cars_s), now)
        stored == Deactivate(st_s.cars, cars_s)
        st_r   == ReconcileLoop([Session EXCEPT !.next_id = st_s.next_id],
                                cars_r, Len(cars_r), now)
        new_r  == {c \in st_r.cars : c.id >= st_s.next_id}
        old_r  == st_r.cars \ new_r
        refused == UniqueViolation(stored, new_r)
        log_s  == [scraping_log EXCEPT ![log_entry[s]] =
                      LogSuccess(@, cars_s, st_s)]
    IN  /\ s # r
        /\ pc[s] = "scrape" /\ pc[r] = "scrape"
        /\ IF refused
           THEN /\ cars' = stored
                /\ next_id' = st_s.next_id
                /\ scraping_log' = log_s
                /\ newly_added_listing_ids' =
                      [newly_added_listing_ids EXCEPT
                          ![s] = st_s.newly_added, ![r] = <<>>]
                /\ pc' = [pc EXCEPT
                      ![s] = IF st_s.newly_added # <<>> THEN "priority"
                                                       ELSE "idle",
                      ![r] = "idle"]
           ELSE /\ cars' = Deactivate(
                              FlushUpdates(stored, cars, old_r) \cup new_r,
                              cars_r)
                /\ next_id' = st_r.next_id
                /\ scraping_log' = [log_s EXCEPT ![log_entry[r]] =
                                       LogSuccess(@, cars_r, st_r)]
                /\ newly_added_listing_ids' =
                      [newly_added_listing_ids EXCEPT
                          ![s] = st_s.newly_added, ![r] = st_r.newly_added]
                /\ pc' = [pc EXCEPT
                      ![s] = IF st_s.newly_added # <<>> THEN "priority"
                                                       ELSE "idle",
                      ![r] = IF st_r.newly_added # <<>> THEN "priority"
                                                       ELSE "idle"]
        /\ last_run' = <<[page |-> page_r,
                          fail_at |-> IF refused THEN Len(cars_r) ELSE 0,
                          raised_by |-> IF refused THEN "database" ELSE "none",
                          escaped |-> refused]>>
        /\ UNCHANGED <<now, log_entry, cars_needing_images>>

\* The pages of two runs that overlap: two listings, and two that share
\* one with them.
OverlapPages ==
    {RenderedPage(1, 2, "full"), RenderedPage(2, 2, "full")}

\* The pages of the runs that follow one another: those, and a page above
\* the threshold on which listing 1 is absent.
ManualPages ==
    OverlapPages \cup {RenderedPage(2, DEACTIVATION_THRESHOLD + 1, "full")}

\* The scheduler's jobs and the manual trigger, POST /api/trigger-scrape,
\* which calls scrape_and_store_cars in the thread of its request.
NextManual ==
    \/ Schedule(MaxRuns, ManualPages, 0, {1})
    \/ ScrapeBegin("trigger_scrape", MaxRuns)
    \/ scrape_and_store_cars("trigger_scrape", ManualPages, 0)
    \/ priority_enrich_latest("trigger_scrape", {1})
    \/ \E s \in Scrapers, r \in Scrapers, page_s \in OverlapPages,
          page_r \in OverlapPages : Overlap(s, r, page_s, page_r)

SpecManual == Init /\ [][NextManual]_vars

\* C19: at no time two executions of the discovery job are under way,
\* whether started by the scheduler or by the manual trigger.
C19_NoConcurrentDiscovery ==
    Cardinality({s \in Scrapers : pc[s] # "idle"}) <= 1

\* C20: in every reachable store no two rows have the same listing_id,
\* and no step changes the listing_id of a row, under discovery runs of
\* the scheduler and of the manual trigger that follow one another or
\* overlap, enrichment and cleanup.
C20_UniqueImmutableId ==
    /\ [](\A c \in cars, d \in cars : c.listing_id = d.listing_id => c = d)
    /\ [][\A c \in cars, d \in cars' :
             c.id = d.id => c.listing_id = d.listing_id]_vars

\* C20 witness: two overlapping runs both found listings 1 and 2 to be
\* new; one stored them, the INSERT of the other was refused and its log
\* row was never completed.
C20_Witness ==
    /\ Len(scraping_log) = 2
    /\ {scraping_log[1].status, scraping_log[2].status} = {"success", "NULL"}
    /\ last_run # <<>> /\ last_run[1].escaped
    /\ {c.listing_id : c \in cars} = {1, 2}
    /\ Cardinality(cars) = 2

\* ------------------------------------------------ the discoverer

\* Anchors a page may hold, and the per-run maximum the scraper of these
\* runs is built with.
MaxLinks == 5
MaxCars == 2

\* Listing ids the anchors of these pages yield.
LinkIds == 1..3

\* The anchors: a detail page of each listing, a search/category path that
\* yields listing id 1, and a href that yields no id.
Anchors ==
    {Card(lid, "full") : lid \in LinkIds}
        \cup {[Card(1, "full") EXCEPT !.nondetail = TRUE],
              [Card(1, "full") EXCEPT !.listing_id = None]}

\* Every page of up to MaxLinks anchors.
DiscoverPages ==
    {[goto |-> "ok", all_car_links |-> links] :
        links \in UNION {[1..n -> Anchors] : n \in 0..MaxLinks}}

\* One discovery run of a scraper built with max_cars = MaxCars on any of
\* these pages, over the empty store.
NextDiscover ==
    \/ ScrapeBegin("fast_scrape_job", 1)
    \/ \E page \in DiscoverPages :
          ReconcileMax("fast_scrape_job", page, [at |-> 0, by |-> "none"],
                       MaxCars)
    \/ priority_enrich_latest("fast_scrape_job", {1})

SpecDiscover == Init /\ [][NextDiscover]_vars

\* An anchor qualifies when its href yields an id and is not a
\* search/category path.
Qualifies(link) == link.listing_id # None /\ ~link.nondetail

\* The positions of the first qualifying anchor of every id.
FirstQualifying(links) ==
    {k \in DOMAIN links :
        /\ Qualifies(links[k])
        /\ \A j \in 1..(k - 1) :
              ~(Qualifies(links[j])
                  /\ links[j].listing_id = links[k].listing_id)}

\* The i-th of a set of positions, in increasing order.
NthOf(positions, i) ==
    CHOOSE k \in positions : Cardinality({j \in positions : j <= k}) = i

\* C21: the candidates of a page hold no id twice and are the first
\* qualifying anchor of every id, in page order; the run of a scraper built
\* with a maximum of MaxCars, on the empty store, inserts the first
\* MaxCars of them, in this order, and records their number as found.
C21_DiscovererDeduplicates ==
    [][\A s \in Scrapers :
          DiscoveryStep(s) =>
             LET links == last_run'[1].page.all_car_links
                 out   == car_listings(links, {})
                 kept  == FirstQualifying(links)
                 n     == Min(MaxCars, Cardinality(kept))
             IN  /\ \A i \in DOMAIN out, j \in DOMAIN out :
                       out[i].listing_id = out[j].listing_id => i = j
                 /\ Len(out) = Cardinality(kept)
                 /\ \A i \in DOMAIN out : out[i] = links[NthOf(kept, i)]
                 /\ newly_added_listing_ids'[s] =
                       [i \in 1..n |-> links[NthOf(kept, i)].listing_id]
                 /\ scraping_log'[log_entry[s]].cars_found = n]_vars

\* C21 witness: a run is over whose page showed listing 1 on a category
\* anchor, then twice on a detail anchor, then listings 2 and 3: three
\* distinct candidates, of which the run took the first two.
C21_Witness ==
    /\ last_run # <<>>
    /\ last_run[1].page.all_car_links =
          <<[Card(1, "full") EXCEPT !.nondetail = TRUE], Card(1, "full"),
            Card(1, "full"), Card(2, "full"), Card(3, "full")>>
    /\ scraping_log[1].status = "success"
    /\ scraping_log[1].cars_found = MaxCars
    /\ {c.listing_id : c \in cars} = {1, 2}

\* ------------------------------------------------ the extractors

\* A call of an extractor is recorded in last_run: its input, whether it
\* has returned, and what it returned.

\* The state in which the extractor call `call` is about to be made.
InitCall(call) ==
    /\ cars = {}
    /\ next_id = 1
    /\ scraping_log = <<>>
    /\ now = 0
    /\ pc = [j \in Jobs |-> "idle"]
    /\ log_entry = [s \in Scrapers |-> 0]
    /\ newly_added_listing_ids = [s \in Scrapers |-> <<>>]
    /\ cars_needing_images = <<>>
    /\ last_run = <<call>>

\* Tokens of a text that _extract_year is given, in text order.  A text is
\* the sequence of its words; a number stands for the word of these
\* digits, 0 for a word that is no number.
MaxTokens == 3
YearTokens == {0, 1985, 1995, 2015, 2026, 2027, 2030}
YearTexts == UNION {[1..n -> YearTokens] : n \in 0..MaxTokens}

\* The years in which the extractor may be called.
CurrentYears == {2025, 2026}

\* re.search(r'\b(19\d{2}|20[0-2]\d)\b', text): the position of the first
\* word that is 19dd or 20dd with a third digit 0, 1 or 2; 0 when there is
\* none.
YearPattern(token) == token \in 1900..2029

YearMatch(text) ==
    IF \E k \in DOMAIN text : YearPattern(text[k])
    THEN CHOOSE k \in DOMAIN text :
            /\ YearPattern(text[k])
            /\ \A j \in 1..(k - 1) : ~YearPattern(text[j])
    ELSE 0

\* _extract_year: the first match, when it lies in 1990..2025.
extract_year(text) ==
    LET match == YearMatch(text) IN
    IF match # 0
    THEN LET year == text[match]
         IN  IF 1990 <= year /\ year <= 2025 THEN year ELSE None
    ELSE None

InitExtractYear ==
    \E text \in YearTexts, current_year \in CurrentYears :
        InitCall([fn |-> "_extract_year", text |-> text,
                  current_year |-> current_year,
                  returned |-> FALSE, year |-> None])

\* The call returns.
ExtractYear ==
    /\ last_run # <<>> /\ ~last_run[1].returned
    /\ last_run' = <<[last_run[1] EXCEPT
                        !.returned = TRUE,
                        !.year = extract_year(last_run[1].text)]>>
    /\ UNCHANGED <<cars, next_id, scraping_log, now, pc, log_entry,
                   newly_added_listing_ids, cars_needing_images>>

NextExtractYear == ExtractYear

SpecExtractYear == InitExtractYear /\ [][NextExtractYear]_vars

\* A 4-digit token in [1900, 2099] that lies in the plausibility window
\* [1990, current_year + 1].
Plausible(token, current_year) ==
    /\ token \in 1900..2099
    /\ 1990 <= token /\ token <= current_year + 1

\* C22: the year extractor returns the first token of the text that is in
\* [1900, 2099] and in [1990, current_year + 1], and absent only when no
\* token of the text is.
C22_FirstPlausibleYear ==
    last_run # <<>> /\ last_run[1].returned =>
        LET text == last_run[1].text
            cy   == last_run[1].current_year
        IN  IF \E k \in DOMAIN text : Plausible(text[k], cy)
            THEN \E k \in DOMAIN text :
                    /\ Plausible(text[k], cy)
                    /\ \A j \in 1..(k - 1) : ~Plausible(text[j], cy)
                    /\ last_run[1].year = text[k]
            ELSE last_run[1].year = None

\* Words of a title that _parse_brand_model is given.  A title is the
\* sequence of its words, separated by blanks.
MaxWords == 3
Words == {"BMW", "bmw", "Mini", "Minivan", "320d", "Touring", "5", "&"}
Titles == UNION {[1..n -> Words] : n \in 0..MaxWords}

\* The brands of common_brands that occur in these words, in the order of
\* the list.
common_brands == <<"BMW", "Mini">>

\* str.upper on these words.
Upper(word) ==
    CASE word = "bmw" -> "BMW"
      [] word = "Mini" -> "MINI"
      [] word = "Minivan" -> "MINIVAN"
      [] word = "320d" -> "320D"
      [] word = "Touring" -> "TOURING"
      [] OTHER -> word

\* brand.upper() in title_upper: the brand is a substring of the title.
SubstringOf(brand, title) ==
    \E k \in DOMAIN title :
        \/ Upper(title[k]) = Upper(brand)
        \/ Upper(brand) = "MINI" /\ Upper(title[k]) = "MINIVAN"

\* pattern.search(title) for \b brand \b with re.IGNORECASE: the position
\* of the first word that is the brand; 0 when no word is.
WordMatch(brand, title) ==
    IF \E k \in DOMAIN title : Upper(title[k]) = Upper(brand)
    THEN CHOOSE k \in DOMAIN title :
            /\ Upper(title[k]) = Upper(brand)
            /\ \A j \in 1..(k - 1) : Upper(title[j]) # Upper(brand)
    ELSE 0

\* A word of the characters [A-Za-z0-9\-], and the number of characters
\* of a word.
ModelWord(word) == word # "&"
Chars(word) == IF word \in {"5", "&"} THEN 1 ELSE 2

\* model_match on after_brand: one word of [A-Za-z0-9\-], and a second one
\* when it follows; no words when after_brand does not start with one.
model_match(after_brand) ==
    IF after_brand = <<>> \/ ~ModelWord(after_brand[1]) THEN <<>>
    ELSE IF Len(after_brand) >= 2 /\ ModelWord(after_brand[2])
         THEN <<after_brand[1], after_brand[2]>>
         ELSE <<after_brand[1]>>

\* The body of the loop for a brand that is a substring of the title.  An
\* absent brand or model is the empty sequence; a brand is <<brand>>, a
\* model the sequence of its words.
BrandFound(brand, title) ==
    LET match == WordMatch(brand, title)
        model == model_match(SubSeq(title, match + 1, Len(title)))
    IN  IF match # 0 /\ model # <<>>
             /\ (Len(model) > 1 \/ Chars(model[1]) > 1)
        THEN [brand |-> <<brand>>, model |-> model]
        ELSE [brand |-> <<brand>>, model |-> <<>>]

\* _parse_brand_model: the loop over common_brands from its k-th brand on.
RECURSIVE parse_brand_model_from(_, _)
parse_brand_model_from(k, title) ==
    IF k > Len(common_brands) THEN [brand |-> <<>>, model |-> <<>>]
    ELSE IF SubstringOf(common_brands[k], title)
         THEN BrandFound(common_brands[k], title)
         ELSE parse_brand_model_from(k + 1, title)

parse_brand_model(title) == parse_brand_model_from(1, title)

InitParseBrandModel ==
    \E title \in Titles :
        InitCall([fn |-> "_parse_brand_model", title |-> title,
                  returned |-> FALSE,
                  result |-> [brand |-> <<>>, model |-> <<>>]])

\* The call returns.
ParseBrandModel ==
    /\ last_run # <<>> /\ ~last_run[1].returned
    /\ last_run' = <<[last_run[1] EXCEPT
                        !.returned = TRUE,
                        !.result = parse_brand_model(last_run[1].title)]>>
    /\ UNCHANGED <<cars, next_id, scraping_log, now, pc, log_entry,
                   newly_added_listing_ids, cars_needing_images>>

NextParseBrandModel == ParseBrandModel

SpecParseBrandModel == InitParseBrandModel /\ [][NextParseBrandModel]_vars

\* The catalog brands that occur in the title as a whole word.
WholeWordBrands(title) ==
    {common_brands[b] : b \in {b \in DOMAIN common_brands :
                                  WordMatch(common_brands[b], title) # 0}}

\* C23: the brand/model extractor returns a brand only when it is a catalog
\* brand that occurs in the title as a whole word, and then the model is
\* the word that follows the brand; when no catalog brand occurs as a whole
\* word, brand and model are absent.
C23_BrandWholeWordModelNext ==
    last_run # <<>> /\ last_run[1].returned =>
        LET title  == last_run[1].title
            result == last_run[1].result
        IN  IF WholeWordBrands(title) = {}
            THEN result.brand = <<>> /\ result.model = <<>>
            ELSE /\ result.brand # <<>>
                 /\ result.brand[1] \in WholeWordBrands(title)
                 /\ LET at == WordMatch(result.brand[1], title)
                    IN  at < Len(title) /\ ModelWord(title[at + 1])
                           /\ Chars(title[at + 1]) > 1
                        => result.model = <<title[at + 1]>>

\* ------------------------------------------------ the statistics of a run

\* Every page of up to three anchors.
StatPages ==
    {[goto |-> "ok", all_car_links |-> links] :
        links \in UNION {[1..n -> Anchors] : n \in 0..3}}

\* Discovery runs of a scraper built with max_cars = MaxCars on these
\* pages, some of them failing at their first record.
NextStatistics ==
    \/ ScrapeBegin("fast_scrape_job", MaxRuns)
    \/ \E page \in StatPages, fault \in Faults(1) :
          ReconcileMax("fast_scrape_job", page, fault, MaxCars)
    \/ priority_enrich_latest("fast_scrape_job", {1})

SpecStatistics == Init /\ [][NextStatistics]_vars

\* C24: every log row at status success has cars_added + cars_updated =
\* cars_found, and cars_found is at most the maximum the scraper was built
\* with.
C24_StatisticsAddUp ==
    \A k \in DOMAIN scraping_log :
        scraping_log[k].status = "success" =>
            /\ scraping_log[k].cars_added + scraping_log[k].cars_updated
                  = scraping_log[k].cars_found
            /\ scraping_log[k].cars_found <= MaxCars

\* C24 witness: the second run was shown more distinct listings than the
\* maximum; it found the maximum, of which it added one and updated one.
C24_Witness ==
    /\ Len(scraping_log) = 2
    /\ scraping_log[2].status = "success"
    /\ scraping_log[2].cars_added = 1
    /\ scraping_log[2].cars_updated = 1
    /\ scraping_log[2].cars_found = MaxCars
    /\ Len(car_listings(last_run[1].page.all_car_links, {})) > MaxCars

\* ------------------------------------------------ the image set

\* C25: no step makes the image_urls of a stored row shorter: a row that
\* enrichment gave more than one image keeps at least as many while it
\* exists, also when a later discovery run sees it with one thumbnail.
C25_ImagesNeverShrink ==
    [][\A c \in cars, d \in cars' :
          c.id = d.id => Len(d.image_urls) >= Len(c.image_urls)]_vars

\* ------------------------------------------------ starvation

\* A store of two rows more than one enrichment run visits, and the runs
\* of at most DEACTIVATION_THRESHOLD new listings each that fill it.
StarveRows == ENRICH_BATCH + 2
StarveRuns == (StarveRows + DEACTIVATION_THRESHOLD - 1) \div DEACTIVATION_THRESHOLD

\* The row of listing lid after the run that inserted it at time 0 and the
\* priority enrichment of that run in rendering 3: it holds one image.
StarveRow(lid) ==
    PriorityEnrichCar(NewCar(car_data(Card(lid, "full")), lid, 0),
                      scrape_car_details(DetailPage(3, lid)))

\* The state after StarveRuns runs at time 0 that inserted the listings
\* 1..StarveRows in this order, each followed by its priority enrichment.
InitStarve ==
    /\ cars = {StarveRow(lid) : lid \in 1..StarveRows}
    /\ next_id = StarveRows + 1
    /\ scraping_log =
          [k \in 1..StarveRuns |->
              [NewLog EXCEPT
                  !.cars_found = IF k < StarveRuns THEN DEACTIVATION_THRESHOLD
                                 ELSE StarveRows
                                         - (StarveRuns - 1) * DEACTIVATION_THRESHOLD,
                  !.cars_added = IF k < StarveRuns THEN DEACTIVATION_THRESHOLD
                                 ELSE StarveRows
                                         - (StarveRuns - 1) * DEACTIVATION_THRESHOLD,
                  !.status = "success",
                  !.scrape_completed_at = 0]]
    /\ now = 0
    /\ pc = [j \in Jobs |-> "idle"]
    /\ log_entry = [s \in Scrapers |->
                       IF s = "fast_scrape_job" THEN StarveRuns ELSE 0]
    /\ newly_added_listing_ids = [s \in Scrapers |-> <<>>]
    /\ cars_needing_images = <<>>
    /\ last_run = <<[page |-> RenderedPage(
                                 (StarveRuns - 1) * DEACTIVATION_THRESHOLD + 1,
                                 StarveRows
                                    - (StarveRuns - 1) * DEACTIVATION_THRESHOLD,
                                 "full"),
                     fail_at |-> 0, raised_by |-> "none", escaped |-> FALSE]>>

\* The pages of one more run: listing 1 seen again, a new listing, and the
\* first listings above the threshold.
StarvePages ==
    {RenderedPage(1, 1, "full"), RenderedPage(StarveRows + 1, 1, "full"),
     RenderedPage(1, DEACTIVATION_THRESHOLD + 1, "full")}

NextStarve == Schedule(StarveRuns + 1, StarvePages, 0, {3})

\* The scheduler fires image_enrichment_job every 2 minutes: the job is
\* not kept from running for ever.
SpecStarve ==
    InitStarve /\ [][NextStarve]_vars
        /\ WF_vars(enrich_cars_with_images({3}))

\* Listing 1, the earliest of the store, is active with at most one image.
NeedsVisit ==
    \E c \in cars : c.listing_id = 1 /\ c.is_active /\ NeedsImages(c)

\* The enrichment job has loaded listing 1 for a visit.
Visited ==
    \E k \in DOMAIN cars_needing_images :
        cars_needing_images[k].listing_id = 1

\* C26: if listing 1 stays active with at most one image and the
\* enrichment job keeps running, the job eventually visits listing 1, also
\* when more than 20 active rows with at most one image were seen later
\* and their detail pages never show more images.
C26_NoStarvation == ([]NeedsVisit) => <>Visited

=============================================================================
